---- MODULE Spec2Model ----
(***************************************************************************)
(* The CursorFlow Memory Bank: MemoryBankManager (component store with     *)
(* file and SQLite backends, history, read cache) and                      *)
(* MemoryBankNotificationManager (EventEmitter based subscriptions).       *)
(*                                                                         *)
(* Four managers, one per combination of the options useDatabase and       *)
(* enableCache, are constructed over empty storage and receive the same    *)
(* sequence of calls.  Strings are sequences of one-character strings.     *)
(* Date.now() is the variable now; it may or may not advance between two   *)
(* calls (millisecond resolution).                                         *)
(***************************************************************************)
EXTENDS Integers, Sequences, FiniteSets, TLC

VARIABLES
  mb,      \* mb[s]: the state of the MemoryBankManager constructed with options s
  now,     \* Date.now()
  calls,   \* the calls made so far: [op, componentName, content, at, ok]
  budget   \* number of calls a behaviour makes at most

vars == <<mb, now, calls, budget>>

-----------------------------------------------------------------------------
(* Bounds *)

\* calls per behaviour of Spec and of SpecUnknown
MaxOps == 3
\* calls per behaviour of SpecHistory
MaxWrites == 4
\* calls per behaviour of SpecNotify
MaxOpsNotify == 3
\* Date.now() ranges over 0..MaxClock
MaxClock == 2
\* appendToComponent is called only while the appended content fits
MaxContentLen == 2
\* options.maxHistoryVersions of the managers
MaxHistoryVersions == 2
\* The largest limit passed to getComponentHistory
MaxLimit == 3
\* Calls in a behaviour of SpecLimit
MaxUpdates == 3
\* Calls in a behaviour of SpecVersion
MaxVersionWrites == 11
\* The last instant of the clock in SpecVersion
MaxVersionClock == 5

\* Calls made while bootstrapping a store
MaxBootstrapOps == 4

\* Calls made in the pruning scenario
MaxPruneOps == 4

\* Largest keepCount passed to pruneComponentHistory
MaxKeepCount == 2

\* Calls made in the scenario of overlapping calls
MaxOverlapCalls == 2

\* Calls in progress at the same time
MaxInFlight == 2

-----------------------------------------------------------------------------
(* Maps (JS objects, Map, directories, tables keyed by primary key) *)

EmptyMap == [k \in {} |-> <<>>]

Put(f, k, v) == [x \in (DOMAIN f) \cup {k} |-> IF x = k THEN v ELSE f[x]]

Remove(f, ks) == [x \in (DOMAIN f) \ ks |-> f[x]]

Max(S) == CHOOSE x \in S : \A y \in S : y <= x

\* Array.prototype.sort().reverse() on the file names of a history directory:
\* the names are fixed-width ISO-8601 timestamps, so the lexicographic order
\* is the order of the instants; newest first.
RECURSIVE SortReverse(_)
SortReverse(S) ==
  IF S = {} THEN <<>> ELSE LET x == Max(S) IN <<x>> \o SortReverse(S \ {x})

\* Array.prototype.slice(from) / slice(0, to)
SliceFrom(seq, from) == SubSeq(seq, from + 1, Len(seq))

SliceTo(seq, to) == SubSeq(seq, 1, IF to < Len(seq) THEN to ELSE Len(seq))

Range(seq) == {seq[i] : i \in DOMAIN seq}

-----------------------------------------------------------------------------
(* Configuration and inputs *)

\* this.components: the fixed known component names, in Object.keys order
Components ==
  <<"activeContext", "productContext", "decisionLog", "progress", "systemPatterns">>

ComponentNames == Range(Components)

requiredComponents == {"activeContext", "productContext", "decisionLog", "progress"}

\* The _getDefault<Component> methods; each fixed text is one token here.
DefaultMethods ==
  [activeContext  |-> <<"# Active Context">>,
   productContext |-> <<"# Product Context">>,
   decisionLog    |-> <<"# Decision Log">>,
   progress       |-> <<"# Progress">>,
   systemPatterns |-> <<"# System Patterns">>]

\* `_getDefault${Name}` looked up by name; '' when there is no such method
DefaultContent(componentName) ==
  IF componentName \in DOMAIN DefaultMethods THEN DefaultMethods[componentName] ELSE <<>>

enableRealTimeUpdates == TRUE

EVENT_TYPES ==
  [COMPONENT_UPDATED       |-> "component-updated",
   COMPONENT_CREATED       |-> "component-created",
   COMPONENT_HISTORY_ADDED |-> "component-history-added",
   MEMORY_BANK_INITIALIZED |-> "memory-bank-initialized",
   CACHE_CLEARED           |-> "cache-cleared"]

AllEventTypes == {EVENT_TYPES[k] : k \in DOMAIN EVENT_TYPES}

PreviewLength == 100

\* const { limit = 10 } = options, in the database adapter
DefaultLimit == 10

\* The managers: one per combination of useDatabase and enableCache
Stores == [useDatabase : BOOLEAN, enableCache : BOOLEAN]

\* Inputs of the calls: a known and an unknown component name, the contents
\* written
InputNames == {"activeContext"}

UnknownNames == {"nonExistentComponent"}

InputContents == {<<>>, <<"a">>, <<"b">>}

\* A content longer than the preview carried by the notifications
LongContent == [i \in 1..(PreviewLength + 1) |-> "x"]

ConnectionIds == {"c1", "c2"}

\* Callbacks given to subscribe: each connection passes a callback of its
\* own; the one of c1 returns or throws, the one of c2 returns
Callbacks(connectionId) ==
  [name : {connectionId}, throws : IF connectionId = "c1" THEN BOOLEAN ELSE {FALSE}]

UnknownComponent == "Unknown component"

\* Error(`Version ${versionId} not found for component ${componentName}`)
VersionNotFound == "Version not found"

-----------------------------------------------------------------------------
(* MemoryBankManager: construction *)

NewManager(s) ==
  [options |-> [useDatabase |-> s.useDatabase,
                maxHistoryVersions |-> MaxHistoryVersions,
                enableRealTimeUpdates |-> enableRealTimeUpdates],
   cache |-> [enabled |-> s.enableCache,
              data |-> EmptyMap,
              stats |-> [hits |-> 0, misses |-> 0, lastCleared |-> 0]],
   \* basePath: component file -> content
   files |-> EmptyMap,
   \* historyPath/<componentName>/<timestamp>.md -> content
   historyFiles |-> [c \in ComponentNames |-> EmptyMap],
   \* SQLite: components(id -> row), component_history rows in insertion
   \* order, seq = the AUTOINCREMENT counter
   db |-> [components |-> EmptyMap, component_history |-> <<>>, seq |-> 0],
   \* notificationManager: subscriptions Map and the EventEmitter listeners,
   \* in registration order
   subscriptions |-> EmptyMap,
   listeners |-> <<>>,
   \* of the call in progress or last completed: the events emitted, the
   \* callback invocations, an exception in flight, the outcome of the call
   emitted |-> <<>>,
   delivered |-> <<>>,
   threw |-> FALSE,
   \* for each COMPONENT_CREATED / COMPONENT_UPDATED event of the call: the
   \* store as a callback invoked with the event finds it
   seen |-> <<>>,
   \* the environment: writing a history entry (the INSERT INTO
   \* component_history, the write of the history file) fails
   historyWriteFails |-> FALSE,
   \* the environment: updateComponent's write of the content (the upsert
   \* of saveComponent, fs.writeFile of the component file) fails
   contentWriteFails |-> FALSE,
   \* the calls of getComponent and updateComponent made without awaiting
   \* the previous one, each with its position and its local variables
   running |-> <<>>,
   result |-> [ok |-> TRUE, value |-> <<>>, error |-> ""]]

Begin(m) ==
  [m EXCEPT !.emitted = <<>>, !.delivered = <<>>, !.threw = FALSE, !.seen = <<>>]

Return(m, v) == [m EXCEPT !.result = [ok |-> TRUE, value |-> v, error |-> ""]]

Throw(m, e) == [m EXCEPT !.result = [ok |-> FALSE, value |-> <<>>, error |-> e]]

CallbackError == "callback error"

\* The error a failing file or database operation raises
BackendError == "backend error"

-----------------------------------------------------------------------------
(* MemoryBankNotificationManager *)

\* Object.values(this.EVENT_TYPES)
EventTypeValues ==
  <<EVENT_TYPES.COMPONENT_UPDATED, EVENT_TYPES.COMPONENT_CREATED,
    EVENT_TYPES.COMPONENT_HISTORY_ADDED, EVENT_TYPES.MEMORY_BANK_INITIALIZED,
    EVENT_TYPES.CACHE_CLEARED>>

\* The eventTypes argument of subscribe: null or an array
Null == [isNull |-> TRUE, list |-> <<>>]

Array(list) == [isNull |-> FALSE, list |-> list]

\* subscribe(connectionId, eventTypes, callback) at Date.now() = t.
\* A callback is [name, throws]: throws says whether it raises when invoked.
subscribe(m, connectionId, eventTypes, callback, t) ==
  LET subscriptionId == <<connectionId, t>>
      \* eventTypes || Object.values(this.EVENT_TYPES): an empty array is truthy
      events == IF eventTypes.isNull THEN EventTypeValues ELSE eventTypes.list
      subscription == [connectionId |-> connectionId, eventTypes |-> events,
                       callback |-> callback]
      added == [i \in 1..Len(events) |->
                  [subscriptionId |-> subscriptionId, eventType |-> events[i],
                   callback |-> callback]]
  IN  [m EXCEPT !.subscriptions = Put(@, subscriptionId, subscription),
                !.listeners = @ \o added,
                !.result = [ok |-> TRUE, value |-> subscriptionId, error |-> ""]]

unsubscribe(m, subscriptionId) ==
  IF subscriptionId \in DOMAIN m.subscriptions
    THEN [m EXCEPT !.subscriptions = Remove(@, {subscriptionId}),
                   !.result = [ok |-> TRUE, value |-> TRUE, error |-> ""]]
    ELSE [m EXCEPT !.result = [ok |-> TRUE, value |-> FALSE, error |-> ""]]

unsubscribeAll(m, connectionId) ==
  LET owned == {id \in DOMAIN m.subscriptions :
                  m.subscriptions[id].connectionId = connectionId}
  IN  [m EXCEPT !.subscriptions = Remove(@, owned),
                !.result = [ok |-> TRUE, value |-> Cardinality(owned), error |-> ""]]

\* EventEmitter.emit: the listeners of the event type run synchronously in
\* registration order; an exception raised by a listener leaves emit at once.
RECURSIVE RunListeners(_, _, _)
RunListeners(m, event, i) ==
  IF i > Len(m.listeners) THEN m
  ELSE LET l == m.listeners[i] IN
    IF l.eventType = event.type /\ l.subscriptionId \in DOMAIN m.subscriptions
      THEN IF l.callback.throws
             THEN [m EXCEPT !.threw = TRUE]
             ELSE RunListeners(
                    [m EXCEPT !.delivered =
                       Append(@, [callback |-> l.callback.name,
                                  eventType |-> event.type, data |-> event.data])],
                    event, i + 1)
      ELSE RunListeners(m, event, i + 1)

emit(m, type, data) ==
  LET event == [type |-> type, data |-> data]
  IN  RunListeners([m EXCEPT !.emitted = Append(@, event)], event, 1)

\* content.substring(0, 100) + (content.length > 100 ? '...' : '')
ContentPreview(content) ==
  IF Len(content) > PreviewLength
    THEN SubSeq(content, 1, PreviewLength) \o <<".", ".", ".">>
    ELSE content

notifyComponentUpdated(m, componentName, content, t) ==
  emit(m, EVENT_TYPES.COMPONENT_UPDATED,
       [componentName |-> componentName, timestamp |-> t,
        contentPreview |-> ContentPreview(content)])

notifyComponentCreated(m, componentName, content, t) ==
  emit(m, EVENT_TYPES.COMPONENT_CREATED,
       [componentName |-> componentName, timestamp |-> t,
        contentPreview |-> ContentPreview(content)])

notifyComponentHistoryAdded(m, componentName, versionId, t) ==
  emit(m, EVENT_TYPES.COMPONENT_HISTORY_ADDED,
       [componentName |-> componentName, versionId |-> versionId, timestamp |-> t])

notifyMemoryBankInitialized(m, t) ==
  emit(m, EVENT_TYPES.MEMORY_BANK_INITIALIZED, [timestamp |-> t])

notifyCacheCleared(m, t) ==
  emit(m, EVENT_TYPES.CACHE_CLEARED, [timestamp |-> t])

-----------------------------------------------------------------------------
(* MemoryBankDatabaseAdapter *)

\* INSERT INTO component_history (component_id, content, created_at)
\* (the promise is rejected and no row is inserted when the INSERT fails)
saveComponentHistory(m, componentId, content, t) ==
  IF m.historyWriteFails THEN m
  ELSE [m EXCEPT !.db.component_history =
                   Append(@, [id |-> m.db.seq + 1, component_id |-> componentId,
                              content |-> content, created_at |-> t]),
                 !.db.seq = @ + 1]

\* Mutant: the upsert is rolled back when the history insert fails
saveComponentAtomic(m, componentId, componentName, content, t) ==
  IF m.historyWriteFails THEN m
  ELSE saveComponentHistory(
         [m EXCEPT !.db.components =
            Put(@, componentId, [name |-> componentName, content |-> content,
                                 updated_at |-> t])],
         componentId, content, t)

\* INSERT ... ON CONFLICT (id) DO UPDATE, then "Save to history after
\* successful update": the history row holds the content just saved; a
\* rejection of saveComponentHistory is caught and the save resolves true
saveComponent(m, componentId, componentName, content, t) ==
  saveComponentHistory(
    [m EXCEPT !.db.components =
       Put(@, componentId, [name |-> componentName, content |-> content,
                            updated_at |-> t])],
    componentId, content, t)

-----------------------------------------------------------------------------
(* MemoryBankManager: cache and history helpers *)

\* JS truthiness of this.cache.data[componentName]: a non-empty string
CacheHit(m, componentName) ==
  /\ m.cache.enabled
  /\ componentName \in DOMAIN m.cache.data
  /\ m.cache.data[componentName] # <<>>

\* Mutant: an entry already cached is not overwritten
CacheSetOnce(m, componentName, content) ==
  IF m.cache.enabled /\ componentName \notin DOMAIN m.cache.data
    THEN [m EXCEPT !.cache.data = Put(@, componentName, content)]
    ELSE m

\* Mutant: the cache is replaced by the one entry
CacheSetAlone(m, componentName, content) ==
  IF m.cache.enabled
    THEN [m EXCEPT !.cache.data = Put(EmptyMap, componentName, content)]
    ELSE m

\* if (this.cache.enabled) this.cache.data[componentName] = content
CacheSet(m, componentName, content) ==
  IF m.cache.enabled
    THEN [m EXCEPT !.cache.data = Put(@, componentName, content)]
    ELSE m

\* _pruneComponentHistory (file system): keep the maxHistoryVersions newest
\* file names, remove the others
_pruneComponentHistory(m, componentName) ==
  LET files == SortReverse(DOMAIN m.historyFiles[componentName])
      filesToRemove == SliceFrom(files, m.options.maxHistoryVersions)
  IN  [m EXCEPT !.historyFiles[componentName] = Remove(@, Range(filesToRemove))]

\* _saveToHistory, file system branch (the only one the manager reaches):
\* write <timestamp>.md, prune, notify; every exception is caught, so a
\* failing fs.writeFile leaves no file, prunes nothing and notifies nobody
_saveToHistory(m, componentName, content, t) ==
  LET written == [m EXCEPT !.historyFiles[componentName] = Put(@, t, content)]
      pruned == _pruneComponentHistory(written, componentName)
      notified == IF m.options.enableRealTimeUpdates
                    THEN notifyComponentHistoryAdded(pruned, componentName, t, t)
                    ELSE pruned
  IN  IF m.historyWriteFails THEN m
      ELSE [notified EXCEPT !.threw = FALSE]

-----------------------------------------------------------------------------
(* MemoryBankManager: operations.  Each takes the manager state m and the   *)
(* value t of Date.now() during the call and yields the state after the     *)
(* call, m.result being what the call returned or threw.                    *)

getComponent(m, componentName, t) ==
  IF componentName \notin ComponentNames THEN Throw(m, UnknownComponent)
  ELSE IF CacheHit(m, componentName)
    THEN Return([m EXCEPT !.cache.stats.hits = @ + 1], m.cache.data[componentName])
  ELSE IF m.options.useDatabase
    THEN IF componentName \notin DOMAIN m.db.components
           THEN LET defaultContent == DefaultContent(componentName)
                    saved == saveComponent(m, componentName, componentName,
                                           defaultContent, t)
                IN  Return(CacheSet(saved, componentName, defaultContent),
                           defaultContent)
           ELSE LET content == m.db.components[componentName].content
                IN  Return(CacheSet(m, componentName, content), content)
    ELSE IF componentName \notin DOMAIN m.files
           THEN LET defaultContent == DefaultContent(componentName)
                    written == [m EXCEPT !.files =
                                  Put(@, componentName, defaultContent)]
                IN  Return(CacheSet(written, componentName, defaultContent),
                           defaultContent)
           ELSE LET content == m.files[componentName]
                IN  Return(IF m.cache.enabled
                             THEN CacheSet(m, componentName, content)
                             ELSE [m EXCEPT !.cache.stats.misses = @ + 1],
                           content)

\* Mutant: the test of isNewComponent is inverted
NotifyUpdateInverted(m, isNewComponent, componentName, content, t) ==
  LET notified ==
        IF ~m.options.enableRealTimeUpdates THEN m
        ELSE IF ~isNewComponent
          THEN notifyComponentCreated(m, componentName, content, t)
          ELSE notifyComponentUpdated(m, componentName, content, t)
  IN  IF notified.threw THEN Throw(notified, CallbackError)
      ELSE Return(notified, TRUE)

\* What a callback finds when it is invoked on the store m: the stored
\* content and the cache entry of the component, and the value of a
\* getComponent it calls
Observed(m, componentName, t) ==
  [backend |-> IF m.options.useDatabase
                 THEN IF componentName \in DOMAIN m.db.components
                        THEN <<m.db.components[componentName].content>> ELSE <<>>
                 ELSE IF componentName \in DOMAIN m.files
                        THEN <<m.files[componentName]>> ELSE <<>>,
   cache |-> IF componentName \in DOMAIN m.cache.data
               THEN <<m.cache.data[componentName]>> ELSE <<>>,
   get |-> getComponent(m, componentName, t).result]

\* "Notify about update" and the return of updateComponent: an exception
\* raised while notifying is rethrown by the catch block
NotifyUpdate(m, isNewComponent, componentName, content, t) ==
  LET found == [m EXCEPT !.seen = Append(@, Observed(m, componentName, t))]
      notified ==
        IF ~m.options.enableRealTimeUpdates THEN m
        ELSE IF isNewComponent
          THEN notifyComponentCreated(found, componentName, content, t)
          ELSE notifyComponentUpdated(found, componentName, content, t)
  IN  IF notified.threw THEN Throw(notified, CallbackError)
      ELSE Return(notified, TRUE)

\* Mutant: the event is published before the content is written
UpdateKnownComponentNotifyingFirst(m, componentName, content, t) ==
  IF m.options.useDatabase
    THEN LET isNewComponent == componentName \notin DOMAIN m.db.components
             notified == NotifyUpdate(m, isNewComponent, componentName, content, t)
             saved == saveComponent(notified, componentName, componentName, content, t)
         IN  CacheSet(saved, componentName, content)
    ELSE LET isNewComponent == componentName \notin DOMAIN m.files
             currentContent == m.files[componentName]
             historied ==
               IF ~isNewComponent /\ currentContent # content
                 THEN _saveToHistory(m, componentName, currentContent, t)
                 ELSE m
             notified == NotifyUpdate(historied, isNewComponent, componentName,
                                      content, t)
             written == [notified EXCEPT !.files = Put(@, componentName, content)]
         IN  CacheSet(written, componentName, content)

\* Mutant: nothing is published when the content is unchanged
UpdateKnownComponentQuiet(m, componentName, content, t) ==
  IF m.options.useDatabase
    THEN LET isNewComponent == componentName \notin DOMAIN m.db.components
             saved == saveComponent(m, componentName, componentName, content, t)
             cached == CacheSet(saved, componentName, content)
         IN  IF ~isNewComponent /\ m.db.components[componentName].content = content
               THEN Return(cached, TRUE)
               ELSE NotifyUpdate(cached, isNewComponent, componentName, content, t)
    ELSE LET isNewComponent == componentName \notin DOMAIN m.files
             currentContent == m.files[componentName]
             historied ==
               IF ~isNewComponent /\ currentContent # content
                 THEN _saveToHistory(m, componentName, currentContent, t)
                 ELSE m
             written == [historied EXCEPT !.files = Put(@, componentName, content)]
             cached == CacheSet(written, componentName, content)
         IN  IF ~isNewComponent /\ currentContent = content
               THEN Return(cached, TRUE)
               ELSE NotifyUpdate(cached, isNewComponent, componentName, content, t)

\* updateComponent after the check of the component name
UpdateKnownComponent(m, componentName, content, t) ==
  IF m.options.useDatabase
    THEN LET isNewComponent == componentName \notin DOMAIN m.db.components
             saved == saveComponent(m, componentName, componentName, content, t)
             cached == CacheSet(saved, componentName, content)
         IN  \* saveComponent rejects: the catch block rethrows
             IF m.contentWriteFails THEN Throw(m, BackendError)
             ELSE NotifyUpdate(cached, isNewComponent, componentName, content, t)
    ELSE LET isNewComponent == componentName \notin DOMAIN m.files
             currentContent == m.files[componentName]
             historied ==
               IF ~isNewComponent /\ currentContent # content
                 THEN _saveToHistory(m, componentName, currentContent, t)
                 ELSE m
             written == [historied EXCEPT !.files = Put(@, componentName, content)]
             cached == CacheSet(written, componentName, content)
         IN  \* fs.writeFile throws: the catch block rethrows
             IF m.contentWriteFails THEN Throw(historied, BackendError)
             ELSE NotifyUpdate(cached, isNewComponent, componentName, content, t)

\* Mutant: the component name is not checked
updateComponentUnchecked(m, componentName, content, t) ==
  UpdateKnownComponent(m, componentName, content, t)

\* Mutant: the cache is written before the backend
updateComponentCachingFirst(m, componentName, content, t) ==
  IF componentName \notin ComponentNames THEN Throw(m, UnknownComponent)
  ELSE UpdateKnownComponent(CacheSet(m, componentName, content),
                            componentName, content, t)

updateComponent(m, componentName, content, t) ==
  IF componentName \notin ComponentNames THEN Throw(m, UnknownComponent)
  ELSE UpdateKnownComponent(m, componentName, content, t)

appendToComponent(m, componentName, content, t) ==
  IF componentName \notin ComponentNames THEN Throw(m, UnknownComponent)
  ELSE IF m.options.useDatabase
    THEN LET exists == componentName \in DOMAIN m.db.components
             currentContent == IF exists THEN m.db.components[componentName].content
                               ELSE <<>>
             saved == saveComponent(m, componentName, componentName,
                                    currentContent \o content, t)
         IN  Return(CacheSet(saved, componentName, currentContent \o content), TRUE)
    ELSE LET exists == componentName \in DOMAIN m.files
             historied == IF exists
                            THEN _saveToHistory(m, componentName,
                                                m.files[componentName], t)
                            ELSE m
             \* create the file empty if missing, then fs.appendFile
             before == IF exists THEN m.files[componentName] ELSE <<>>
             written == [historied EXCEPT !.files =
                           Put(@, componentName, before \o content)]
             \* this.cache.data[componentName] || ''
             cachedContent == IF CacheHit(m, componentName)
                                THEN m.cache.data[componentName] ELSE <<>>
         IN  Return(CacheSet(written, componentName, cachedContent \o content), TRUE)

\* getAllComponents, file system branch: getComponent for every known name
RECURSIVE GetEach(_, _, _, _)
GetEach(m, i, acc, t) ==
  IF i > Len(Components) THEN Return(m, acc)
  ELSE LET got == getComponent(m, Components[i], t)
       IN  GetEach(got, i + 1,
                   Put(acc, Components[i],
                       IF got.result.ok THEN got.result.value ELSE <<>>), t)

\* getAllComponents, database branch: cache every row SELECT * returns
RECURSIVE CacheRows(_, _)
CacheRows(m, ids) ==
  IF ids = {} THEN m
  ELSE LET id == CHOOSE x \in ids : TRUE
       IN  CacheRows(CacheSet(m, id, m.db.components[id].content), ids \ {id})

getAllComponents(m, t) ==
  IF m.options.useDatabase
    THEN Return(CacheRows(m, DOMAIN m.db.components),
                [id \in DOMAIN m.db.components |-> m.db.components[id].content])
    ELSE GetEach(m, 1, EmptyMap, t)

\* Mutant: the entries are kept, only the time of clearing is recorded
clearCacheStatsOnly(m, t) ==
  IF m.cache.enabled
    THEN LET cleared == [m EXCEPT !.cache.stats.lastCleared = t]
             notified == IF m.options.enableRealTimeUpdates
                           THEN notifyCacheCleared(cleared, t) ELSE cleared
         IN  IF notified.threw THEN Throw(notified, CallbackError)
             ELSE Return(notified, TRUE)
    ELSE Return(m, TRUE)

clearCache(m, t) ==
  IF m.cache.enabled
    THEN LET cleared == [m EXCEPT !.cache.data = EmptyMap,
                                  !.cache.stats.lastCleared = t]
             notified == IF m.options.enableRealTimeUpdates
                           THEN notifyCacheCleared(cleared, t) ELSE cleared
         IN  IF notified.threw THEN Throw(notified, CallbackError)
             ELSE Return(notified, TRUE)
    ELSE Return(m, TRUE)

\* initialize: updateComponent with the default content for each required
\* component in turn, then notifyMemoryBankInitialized; the first exception
\* ends the call
InitOrder == <<"activeContext", "productContext", "decisionLog", "progress">>

RECURSIVE InitEach(_, _, _)
InitEach(m, i, t) ==
  IF i > Len(InitOrder)
    THEN LET notified == IF m.options.enableRealTimeUpdates
                           THEN notifyMemoryBankInitialized(m, t) ELSE m
         IN  IF notified.threw THEN Throw(notified, CallbackError)
             ELSE Return(notified, TRUE)
  ELSE LET updated == updateComponent(m, InitOrder[i], DefaultMethods[InitOrder[i]], t)
       IN  IF updated.result.ok THEN InitEach(updated, i + 1, t) ELSE updated

\* Mutant: the end of the initialization is not notified
initializeSilently(m, t) ==
  LET Write(x, i) == IF x.result.ok
                       THEN updateComponent(x, InitOrder[i],
                                            DefaultMethods[InitOrder[i]], t)
                       ELSE x
      written == Write(Write(Write(Write(Return(m, TRUE), 1), 2), 3), 4)
  IN  IF written.result.ok THEN Return(written, TRUE) ELSE written

initialize(m, t) == InitEach(m, 1, t)

\* The rows of a component in the order ORDER BY created_at DESC may return
\* them: rows with equal created_at come in any order
RECURSIVE CreatedAtDesc(_)
CreatedAtDesc(rows) ==
  IF rows = {} THEN {<<>>}
  ELSE LET newest == Max({r.created_at : r \in rows})
       IN  UNION {{<<r>> \o rest : rest \in CreatedAtDesc(rows \ {r})} :
                    r \in {x \in rows : x.created_at = newest}}

\* Mutant: the limit keeps the last entries, the oldest, slice(-limit)
LimitedOldest(seq, options) ==
  IF "limit" \in DOMAIN options
    THEN SliceFrom(seq, IF Len(seq) > options.limit THEN Len(seq) - options.limit
                        ELSE 0)
    ELSE seq

\* const { limit = Infinity } = options
Limited(seq, options) ==
  IF "limit" \in DOMAIN options THEN SliceTo(seq, options.limit) ELSE seq

\* getComponentHistory(componentName, options): the set of lists the call may
\* return, each list given by the content of its entries, newest first.
\* Without options.limit the database query gets LIMIT Infinity, taken as no
\* limit.
getComponentHistory(m, componentName, options) ==
  IF m.options.useDatabase
    THEN LET rows == {r \in Range(m.db.component_history) :
                        r.component_id = componentName}
         IN  {[i \in DOMAIN Limited(h, options) |-> h[i].content] :
                h \in CreatedAtDesc(rows)}
    ELSE LET dir == m.historyFiles[componentName]
             files == Limited(SortReverse(DOMAIN dir), options)
         IN  {[i \in DOMAIN files |-> dir[files[i]]]}

\* MemoryBankDatabaseAdapter.getComponentHistory(componentId, options): the
\* set of lists of rows the query may return
adapterGetComponentHistory(m, componentId, options) ==
  LET limit == IF "limit" \in DOMAIN options THEN options.limit ELSE DefaultLimit
      rows == {r \in Range(m.db.component_history) : r.component_id = componentId}
  IN  {SliceTo(h, limit) : h \in CreatedAtDesc(rows)}

\* Version ids passed to getComponentVersion: the decimal string of a row id
\* of component_history, or the ISO string of an instant
VersionOfId(n) == [kind |-> "id", n |-> n]

VersionOfTime(t) == [kind |-> "time", t |-> t]

\* v.id.toString() === versionId || v.timestamp.toISOString() === versionId
RowMatches(row, versionId) ==
  \/ versionId.kind = "id" /\ row.id = versionId.n
  \/ versionId.kind = "time" /\ row.created_at = versionId.t

\* history.find(...) and what getComponentVersion returns or throws then
FindVersion(history, versionId) ==
  LET hits == {i \in DOMAIN history : RowMatches(history[i], versionId)}
  IN  IF hits = {}
        THEN [ok |-> FALSE, value |-> <<>>, error |-> VersionNotFound]
        ELSE [ok |-> TRUE,
              value |-> history[CHOOSE i \in hits : \A j \in hits : i <= j].content,
              error |-> ""]

\* getComponentVersion(componentName, versionId): the set of results the call
\* may have.  A history file is named by the instant it was written at.
getComponentVersion(m, componentName, versionId) ==
  IF componentName \notin ComponentNames
    THEN {[ok |-> FALSE, value |-> <<>>, error |-> UnknownComponent]}
  ELSE IF m.options.useDatabase
    THEN {FindVersion(h, versionId) :
            h \in adapterGetComponentHistory(m, componentName, EmptyMap)}
  ELSE IF /\ versionId.kind = "time"
          /\ versionId.t \in DOMAIN m.historyFiles[componentName]
    THEN {[ok |-> TRUE, value |-> m.historyFiles[componentName][versionId.t],
           error |-> ""]}
    ELSE {[ok |-> FALSE, value |-> <<>>, error |-> VersionNotFound]}

-----------------------------------------------------------------------------
(* The calls *)

\* A call made on every manager, not overlapping any other call; after is
\* the managers once the call has returned or thrown and name is the method
\* called, with its arguments other than the content.  The call is logged
\* with its arguments, the instant of the call, and for each manager whether
\* the call returned (ok) or threw
Call(after, name, content) ==
  /\ Len(calls) < budget
  /\ mb' = after
  /\ calls' = Append(calls, name @@ [content |-> content, at |-> now,
                                     ok |-> [s \in Stores |-> mb'[s].result.ok]])
  /\ now' = now
  /\ budget' = budget

LastCall == calls[Len(calls)]

\* The component as stored in the backend of m
BackendExists(m, componentName) ==
  IF m.options.useDatabase THEN componentName \in DOMAIN m.db.components
  ELSE componentName \in DOMAIN m.files

BackendContent(m, componentName) ==
  IF m.options.useDatabase THEN m.db.components[componentName].content
  ELSE m.files[componentName]

Constructed ==
  /\ mb = [s \in Stores |-> NewManager(s)]
  /\ now = 0
  /\ calls = <<>>

Init == Constructed /\ budget = MaxOps

\* Date.now() advances; instants at which no call is made are not counted
Tick ==
  /\ now < MaxClock
  /\ now = (IF calls = <<>> THEN 0 ELSE LastCall.at)
  /\ now' = now + 1
  /\ UNCHANGED <<mb, calls, budget>>

GetComponent(componentName) ==
  LET after == [s \in Stores |-> getComponent(Begin(mb[s]), componentName, now)]
  IN  Call(after, [op |-> "get", componentName |-> componentName], <<>>)

UpdateComponent(componentName, content) ==
  LET after == [s \in Stores |-> updateComponent(Begin(mb[s]), componentName, content, now)]
  IN  Call(after, [op |-> "update", componentName |-> componentName], content)

AppendToComponent(componentName, content) ==
  LET after == [s \in Stores |-> appendToComponent(Begin(mb[s]), componentName, content, now)]
  IN  /\ \A s \in Stores :
            BackendExists(mb[s], componentName) =>
              Len(BackendContent(mb[s], componentName)) + Len(content) <= MaxContentLen
      /\ Call(after, [op |-> "append", componentName |-> componentName], content)

GetAllComponents ==
  LET after == [s \in Stores |-> getAllComponents(Begin(mb[s]), now)]
  IN  Call(after, [op |-> "getAll", componentName |-> ""], <<>>)

ClearCache ==
  LET after == [s \in Stores |-> clearCache(Begin(mb[s]), now)]
  IN  Call(after, [op |-> "clearCache", componentName |-> ""], <<>>)

Initialize ==
  LET after == [s \in Stores |-> initialize(Begin(mb[s]), now)]
  IN  Call(after, [op |-> "initialize", componentName |-> ""], <<>>)

Next ==
  \/ Tick
  \/ \E componentName \in InputNames : GetComponent(componentName)
  \/ \E componentName \in InputNames, content \in InputContents :
        UpdateComponent(componentName, content)
  \/ \E componentName \in InputNames, content \in InputContents :
        AppendToComponent(componentName, content)
  \/ GetAllComponents
  \/ ClearCache
  \/ Initialize

Spec == Init /\ [][Next]_vars

\* Calls that name an unknown component, among calls that name a known one
NextUnknown ==
  \/ Tick
  \/ \E componentName \in InputNames \cup UnknownNames : GetComponent(componentName)
  \/ \E componentName \in InputNames \cup UnknownNames, content \in {<<>>, <<"a">>} :
        UpdateComponent(componentName, content)
  \/ \E componentName \in InputNames \cup UnknownNames, content \in {<<>>, <<"a">>} :
        AppendToComponent(componentName, content)

SpecUnknown == Init /\ [][NextUnknown]_vars

\* Longer sequences of reads and writes of one component
InitHistory == Constructed /\ budget = MaxWrites

NextHistory ==
  \/ Tick
  \/ GetComponent("activeContext")
  \/ \E content \in InputContents : UpdateComponent("activeContext", content)
  \/ \E content \in InputContents : AppendToComponent("activeContext", content)

SpecHistory == InitHistory /\ [][NextHistory]_vars

\* Subscriptions and the calls that publish events
Subscribe(connectionId, eventTypes, callback) ==
  LET after == [s \in Stores |-> subscribe(Begin(mb[s]), connectionId, eventTypes, callback, now)]
  IN  Call(after, [op |-> "subscribe", componentName |-> "",
                   connectionId |-> connectionId, eventTypes |-> eventTypes,
                   callback |-> callback], <<>>)

Unsubscribe(subscriptionId) ==
  LET after == [s \in Stores |-> unsubscribe(Begin(mb[s]), subscriptionId)]
  IN  Call(after, [op |-> "unsubscribe", componentName |-> "",
                   subscriptionId |-> subscriptionId], <<>>)

UnsubscribeAll(connectionId) ==
  LET after == [s \in Stores |-> unsubscribeAll(Begin(mb[s]), connectionId)]
  IN  Call(after, [op |-> "unsubscribeAll", componentName |-> "",
                   connectionId |-> connectionId], <<>>)

SubscribedTypes ==
  {Null, Array(<<EVENT_TYPES.COMPONENT_UPDATED>>), Array(<<EVENT_TYPES.CACHE_CLEARED>>)}

InitNotify == Constructed /\ budget = MaxOpsNotify

\* Ids passed to unsubscribe: the live ones and one that was never returned
UnsubscribeInputs ==
  UNION {DOMAIN mb[s].subscriptions : s \in Stores} \cup {<<"c1", MaxClock + 1>>}

NextNotify ==
  \/ Tick
  \/ \E connectionId \in ConnectionIds, eventTypes \in SubscribedTypes :
        \E callback \in Callbacks(connectionId) :
           Subscribe(connectionId, eventTypes, callback)
  \/ \E subscriptionId \in UnsubscribeInputs : Unsubscribe(subscriptionId)
  \/ \E connectionId \in ConnectionIds : UnsubscribeAll(connectionId)
  \/ \E content \in {<<"a">>, LongContent} : UpdateComponent("activeContext", content)

SpecNotify == InitNotify /\ [][NextNotify]_vars

-----------------------------------------------------------------------------
(* Properties.  They speak of the managers through what a caller observes:  *)
(* the result of the last call, what getComponentHistory would return, the  *)
(* cache statistics, the callback invocations; and of the stored state.     *)

NoOptions == [k \in {} |-> 0]

\* The step is a call of op
Step(op) ==
  /\ Len(calls') = Len(calls) + 1
  /\ calls'[Len(calls')].op = op

\* The call c writes component id
WritesTo(c, id) ==
  \/ c.op \in {"update", "append"} /\ c.componentName = id
  \/ c.op = "initialize" /\ id \in requiredComponents

\* The history versions of a component stored in the backend of m
StoredVersions(m, id) ==
  IF m.options.useDatabase
    THEN {r \in Range(m.db.component_history) : r.component_id = id}
    ELSE {<<t, m.historyFiles[id][t]>> : t \in DOMAIN m.historyFiles[id]}

Reverse(seq) == [i \in DOMAIN seq |-> seq[Len(seq) + 1 - i]]

\* C1: for every known id and content c, a get(id) whose most recent
\* preceding write to id is a successful update(id, c) returns exactly c, on
\* either backend, with the cache enabled or disabled.
C1_RoundTrip ==
  \A s \in Stores :
    (calls # <<>> /\ LastCall.op = "get" /\ LastCall.componentName \in ComponentNames) =>
      LET id == LastCall.componentName
          W == {i \in 1..(Len(calls) - 1) : WritesTo(calls[i], id)}
      IN  (W # {} /\ calls[Max(W)].op = "update" /\ calls[Max(W)].ok[s]) =>
            /\ mb[s].result.ok
            /\ mb[s].result.value = calls[Max(W)].content

\* A get that follows update(id, '') with another call in between
C1_Witness ==
  /\ Len(calls) = 3
  /\ calls[1].op = "update" /\ calls[1].content = <<>>
  /\ calls[2].op \in {"clearCache", "getAll"}
  /\ calls[3].op = "get" /\ calls[3].componentName = calls[1].componentName
  /\ \A s \in Stores : calls[1].ok[s] /\ mb[s].result.value = <<>>

\* C2: two managers that differ only in useDatabase and received the same
\* calls agree on what the last call returned and on the newest-first list
\* of history contents of every component.
C2_BackendsAgree ==
  \A s1, s2 \in Stores :
    s1.enableCache = s2.enableCache =>
      /\ mb[s1].result = mb[s2].result
      /\ \A id \in ComponentNames :
           getComponentHistory(mb[s1], id, NoOptions) =
             getComponentHistory(mb[s2], id, NoOptions)

\* C3: after any update or append has completed, on either backend, every
\* component has at most maxHistoryVersions stored history versions.
C3_RetentionBound ==
  (calls # <<>> /\ LastCall.op \in {"update", "append"}) =>
    \A s \in Stores, id \in ComponentNames :
      Cardinality(StoredVersions(mb[s], id)) <= mb[s].options.maxHistoryVersions

\* The contents component id has had according to the calls, oldest first,
\* when the calls are gets and updates of id only: the default content if a
\* get came before the first update, then the updated values
IsUpdateOf(c) == c.op = "update"

UpdatedValues == [i \in DOMAIN SelectSeq(calls, IsUpdateOf) |->
                    SelectSeq(calls, IsUpdateOf)[i].content]

ValuesOf(id) ==
  (IF calls # <<>> /\ calls[1].op = "get" THEN <<DefaultContent(id)>> ELSE <<>>)
    \o UpdatedValues

\* C4: after sequential updates update(id, v1), ..., update(id, vn) whose
\* consecutive values are distinct, within the retention bound,
\* getHistory(id) returns exactly the superseded values newest first,
\* [v(n-1), ..., v1, <content before the first update>], and so not the
\* current value vn unless an earlier value equals it.
C4_HistoryMonotonic ==
  \A s \in Stores :
    LET id == "activeContext"
        values == ValuesOf(id)
        expected == Reverse(SubSeq(values, 1, Len(values) - 1))
    IN  ( /\ UpdatedValues # <<>>
          /\ \A i \in DOMAIN calls :
               calls[i].op \in {"get", "update"} /\ calls[i].componentName = id
          /\ \A i \in 1..(Len(values) - 1) : values[i] # values[i + 1]
          /\ Len(expected) <= mb[s].options.maxHistoryVersions )
        => getComponentHistory(mb[s], id, NoOptions) = {expected}

\* C5: an update(id, v) made when the current content of id already equals v
\* creates no history version, on either backend.
C5_NoOpSuppression ==
  [][ \A s \in Stores :
        LET c == calls'[Len(calls')]
        IN  ( /\ Step("update")
              /\ c.componentName \in ComponentNames
              /\ BackendExists(mb[s], c.componentName)
              /\ BackendContent(mb[s], c.componentName) = c.content )
            => StoredVersions(mb'[s], c.componentName) =
                 StoredVersions(mb[s], c.componentName) ]_vars

\* C6: with the cache enabled, after any sequence of get, update, append,
\* getAllComponents and clearCache calls, every cache entry equals the
\* backend's current content for its id, and a get returns the backend's
\* current content.
C6_CacheConsistency ==
  \A s \in Stores :
    ( /\ mb[s].cache.enabled
      /\ \A i \in DOMAIN calls :
           calls[i].op \in {"get", "update", "append", "getAll", "clearCache"} )
    => /\ \A id \in DOMAIN mb[s].cache.data :
            /\ BackendExists(mb[s], id)
            /\ mb[s].cache.data[id] = BackendContent(mb[s], id)
       /\ (calls # <<>> /\ LastCall.op = "get") =>
            mb[s].result.value = BackendContent(mb[s], LastCall.componentName)

\* C7: with caching enabled, a get(id) issued immediately after a successful
\* update(id, v) is served from the cache (a cache hit, the miss counter
\* unchanged, the backend not read) and returns v, for every content v.
C7_WriteThrough ==
  [][ \A s \in Stores :
        ( /\ Step("get")
          /\ calls # <<>>
          /\ LastCall.op = "update"
          /\ LastCall.ok[s]
          /\ LastCall.componentName = calls'[Len(calls')].componentName
          /\ mb[s].cache.enabled )
        => /\ CacheHit(mb[s], LastCall.componentName)
           /\ mb'[s].cache.stats.hits = mb[s].cache.stats.hits + 1
           /\ mb'[s].cache.stats.misses = mb[s].cache.stats.misses
           /\ mb'[s].result.ok
           /\ mb'[s].result.value = LastCall.content ]_vars

LiveListeners(m, type, n) ==
  {i \in DOMAIN m.listeners :
     /\ m.listeners[i].subscriptionId \in DOMAIN m.subscriptions
     /\ m.listeners[i].eventType = type
     /\ m.listeners[i].callback.name = n}

\* The invocations of the callback named n for an event type during the call
Invocations(m, type, n) ==
  {i \in DOMAIN m.delivered :
     m.delivered[i].eventType = type /\ m.delivered[i].callback = n}

\* A step that is a successful update of an existing component in store s
UpdatesExisting(s) ==
  /\ Step("update")
  /\ calls'[Len(calls')].componentName \in ComponentNames
  /\ BackendExists(mb[s], calls'[Len(calls')].componentName)
  /\ mb'[s].result.ok

\* Every callback is invoked for the update once per live registration for
\* the event type published, and not at all for any other event type
DeliveredToSubscribers(s) ==
  \A n \in ConnectionIds, type \in AllEventTypes :
    Cardinality(Invocations(mb'[s], type, n)) =
      IF \E k \in DOMAIN mb'[s].emitted : mb'[s].emitted[k].type = type
        THEN Cardinality(LiveListeners(mb[s], type, n))
        ELSE 0

C10_FaultIsolation ==
  \A s \in Stores :
    (calls # <<>> /\ LastCall.op = "update") =>
      /\ mb[s].result.ok
      /\ \A k \in DOMAIN mb[s].emitted, n \in ConnectionIds :
           Cardinality(Invocations(mb[s], mb[s].emitted[k].type, n)) =
             Cardinality({i \in LiveListeners(mb[s], mb[s].emitted[k].type, n) :
                            ~mb[s].listeners[i].callback.throws})

\* The names of the callbacks invoked for an event type that returned, in
\* the order of invocation
ReturnedFrom(m, type) ==
  LET OfType(d) == d.eventType = type
      invoked == SelectSeq(m.delivered, OfType)
  IN  [i \in DOMAIN invoked |-> invoked[i].callback]

\* The names of the callbacks of the live subscriptions for an event type
\* that return when invoked, in the order the subscriptions were created
ReturningSubscribers(m, type) ==
  LET Matches(l) == /\ l.subscriptionId \in DOMAIN m.subscriptions
                    /\ l.eventType = type
                    /\ ~l.callback.throws
      matching == SelectSeq(m.listeners, Matches)
  IN  [i \in DOMAIN matching |-> matching[i].callback.name]

\* C11: for each event published by a call, the callbacks of all matching
\* live subscriptions have been invoked when the call has returned, in the
\* order in which the subscriptions were created (the invocations that
\* returned are those of all the matching callbacks that do not throw).
C11_DeliveryOrder ==
  \A s \in Stores :
    \A k \in DOMAIN mb[s].emitted :
      ReturnedFrom(mb[s], mb[s].emitted[k].type) =
        ReturningSubscribers(mb[s], mb[s].emitted[k].type)

\* The content of the component in the backend of m, '' if it is absent
CurrentContent(m, id) ==
  IF BackendExists(m, id) THEN BackendContent(m, id) ELSE <<>>

\* C12: append(id, c) is equivalent to update(id, current + c): from the
\* same store state both leave the same current content, the same history
\* versions and the same cache entries and publish the same notifications,
\* the prior content of an absent component being the empty string.
C12_AppendIsUpdate ==
  [][ \A s \in Stores :
        LET c == calls'[Len(calls')]
            id == c.componentName
            updated == updateComponent(Begin(mb[s]), id,
                                       CurrentContent(mb[s], id) \o c.content, c.at)
        IN  (Step("append") /\ id \in ComponentNames) =>
              /\ CurrentContent(mb'[s], id) = CurrentContent(updated, id)
              /\ StoredVersions(mb'[s], id) = StoredVersions(updated, id)
              /\ mb'[s].cache.data = updated.cache.data
              /\ mb'[s].emitted = updated.emitted ]_vars

\* C13: get(id) on an absent component persists the default content of the
\* component, returns it and leaves the component present, and creates no
\* history version for this materialization, on either backend.
C13_Materialization ==
  [][ \A s \in Stores :
        LET id == calls'[Len(calls')].componentName
        IN  ( /\ Step("get")
              /\ id \in ComponentNames
              /\ ~BackendExists(mb[s], id) )
            => /\ mb'[s].result.ok
               /\ mb'[s].result.value = DefaultContent(id)
               /\ BackendExists(mb'[s], id)
               /\ BackendContent(mb'[s], id) = DefaultContent(id)
               /\ StoredVersions(mb'[s], id) = StoredVersions(mb[s], id) ]_vars

\* The COMPONENT_CREATED and COMPONENT_UPDATED events published by a call
ComponentEvents(m) ==
  LET IsComponentEvent(e) == e.type \in {EVENT_TYPES.COMPONENT_CREATED,
                                         EVENT_TYPES.COMPONENT_UPDATED}
  IN  SelectSeq(m.emitted, IsComponentEvent)

Unsubscribed(m, i) == m.listeners[i].subscriptionId \notin DOMAIN m.subscriptions

\* C15: unsubscribe(subscriptionId) returns true and removes the subscription
\* when the id is live, returns false and changes nothing when the id is
\* unknown; and a subscription that has been unsubscribed stays so: no later
\* call makes its callback receive events again.
C15_Unsubscribe ==
  [][ \A s \in Stores :
        /\ Step("unsubscribe") =>
             LET id == calls'[Len(calls')].subscriptionId
             IN  IF id \in DOMAIN mb[s].subscriptions
                   THEN /\ mb'[s].result.value = TRUE
                        /\ mb'[s].subscriptions = Remove(mb[s].subscriptions, {id})
                   ELSE /\ mb'[s].result.value = FALSE
                        /\ mb'[s].subscriptions = mb[s].subscriptions
                        /\ mb'[s].listeners = mb[s].listeners
        /\ \A i \in DOMAIN mb[s].listeners :
             Unsubscribed(mb[s], i) => Unsubscribed(mb'[s], i) ]_vars

\* The id subscribe returned to the logged call c
SubscriptionIdOf(c) == <<c.connectionId, c.at>>

\* The subscribe calls of a connection whose subscription is live in m: its
\* id is registered, so that its callback receives events
LiveSubscribeCalls(m, connectionId) ==
  {i \in DOMAIN calls :
     /\ calls[i].op = "subscribe"
     /\ calls[i].connectionId = connectionId
     /\ SubscriptionIdOf(calls[i]) \in DOMAIN m.subscriptions}

\* C16: unsubscribeAll(connectionId) removes every live subscription owned by
\* the connection and returns the number removed (0 if it has none), and
\* leaves the subscriptions of every other connection registered and
\* receiving events.
C16_UnsubscribeAll ==
  [][ \A s \in Stores :
        Step("unsubscribeAll") =>
          LET connectionId == calls'[Len(calls')].connectionId
              before == mb[s].subscriptions
              after == mb'[s].subscriptions
          IN  /\ mb'[s].result.value =
                   Cardinality(LiveSubscribeCalls(mb[s], connectionId))
              /\ \A id \in DOMAIN after : after[id].connectionId # connectionId
              /\ \A id \in DOMAIN before :
                   before[id].connectionId # connectionId =>
                     id \in DOMAIN after /\ after[id] = before[id]
              /\ mb'[s].listeners = mb[s].listeners ]_vars

-----------------------------------------------------------------------------
(* Subscriptions to all event types, with callbacks that return *)

AllTypes == {Null, Array(<<>>)}

NextSubscribeAll ==
  \/ Tick
  \/ \E connectionId \in ConnectionIds, eventTypes \in AllTypes :
        Subscribe(connectionId, eventTypes, [name |-> connectionId, throws |-> FALSE])
  \/ \E subscriptionId \in UnsubscribeInputs : Unsubscribe(subscriptionId)
  \/ \E content \in {<<>>, <<"a">>} : UpdateComponent("activeContext", content)
  \/ ClearCache
  \/ Initialize

SpecSubscribeAll == InitNotify /\ [][NextSubscribeAll]_vars

\* The invocations of the callback named n with the event e
InvocationsWith(m, e, n) ==
  {i \in DOMAIN m.delivered :
     m.delivered[i] = [callback |-> n, eventType |-> e.type, data |-> e.data]}

\* C17: a subscription created with null or with an empty eventTypes list is
\* subscribed to all event types: while it is live, its callback is invoked
\* for every event published, whatever its type.
C17_SubscribedToAll ==
  \A s \in Stores, n \in ConnectionIds :
    \A k \in DOMAIN mb[s].emitted :
      Cardinality(InvocationsWith(mb[s], mb[s].emitted[k], n)) >=
        Cardinality({i \in LiveSubscribeCalls(mb[s], n) :
                       calls[i].eventTypes \in AllTypes})

\* The ids of the subscriptions made on m so far, live or not, as far as
\* the listeners they registered tell
KnownSubscriptionIds(m) ==
  DOMAIN m.subscriptions \cup
    {m.listeners[i].subscriptionId : i \in DOMAIN m.listeners}

\* C18: subscription ids are unique: every subscribe call returns an id
\* different from the id of every other subscription, also when the same
\* connection subscribes twice at the same clock instant, so that each
\* subscribe call adds one to the number of live subscriptions.
C18_UniqueIds ==
  [][ \A s \in Stores :
        Step("subscribe") =>
          /\ mb'[s].result.value \notin KnownSubscriptionIds(mb[s])
          /\ Cardinality(DOMAIN mb'[s].subscriptions) =
               Cardinality(DOMAIN mb[s].subscriptions) + 1 ]_vars

\* The values of a list of successive contents that the next content
\* superseded (it differs from them), oldest first
RECURSIVE Superseded(_)
Superseded(values) ==
  IF Len(values) < 2 THEN <<>>
  ELSE (IF values[1] # values[2] THEN <<values[1]>> ELSE <<>>)
         \o Superseded(Tail(values))

\* C19: once a component has had at least maxHistoryVersions content-changing
\* updates, its history holds exactly maxHistoryVersions entries, the most
\* recently superseded values (so each further update discards the oldest).
C19_OldestFirstPruning ==
  \A s \in Stores :
    LET id == "activeContext"
        superseded == Superseded(ValuesOf(id))
        keep == mb[s].options.maxHistoryVersions
    IN  ( /\ \A i \in DOMAIN calls :
               calls[i].op \in {"get", "update"} /\ calls[i].componentName = id
          /\ Len(superseded) >= keep )
        => getComponentHistory(mb[s], id, NoOptions) =
             {Reverse(SubSeq(superseded, Len(superseded) - keep + 1,
                             Len(superseded)))}

-----------------------------------------------------------------------------
(* Updates of one component, for the queries of its history *)

InitLimit == Constructed /\ budget = MaxUpdates

NextLimit ==
  \/ Tick
  \/ \E content \in InputContents : UpdateComponent("activeContext", content)

SpecLimit == InitLimit /\ [][NextLimit]_vars

\* C20: getHistory(id, {limit: k}) returns min(k, number of stored versions)
\* entries, the k newest in newest-first order: the first k entries of what
\* getHistory(id) returns without a limit.
C20_LimitTruncation ==
  \A s \in Stores, id \in InputNames, k \in 0..MaxLimit :
    LET stored == Cardinality(StoredVersions(mb[s], id))
        limited == getComponentHistory(mb[s], id, [limit |-> k])
    IN  /\ limited = {SliceTo(h, k) : h \in getComponentHistory(mb[s], id, NoOptions)}
        /\ \A h \in limited : Len(h) = IF k < stored THEN k ELSE stored

\* A limit of 1 cuts a history of at least two versions, the newest of the
\* file backend being the content superseded last
C20_Witness ==
  /\ Len(calls) >= 3
  /\ LastCall.op = "update"
  /\ calls[Len(calls) - 1].op = "update"
  /\ \A s \in Stores :
       /\ Cardinality(StoredVersions(mb[s], "activeContext")) >= 2
       /\ \A h \in getComponentHistory(mb[s], "activeContext", [limit |-> 1]) :
            Len(h) = 1
       /\ ~s.useDatabase =>
            getComponentHistory(mb[s], "activeContext", [limit |-> 1]) =
              {<<calls[Len(calls) - 1].content>>}

-----------------------------------------------------------------------------
(* Many content-changing updates of one component, at most two at an        *)
(* instant, for the lookups of its versions                                 *)

InitVersion == Constructed /\ budget = MaxVersionWrites

TickVersion ==
  /\ now < MaxVersionClock
  /\ now = (IF calls = <<>> THEN 0 ELSE LastCall.at)
  /\ now' = now + 1
  /\ UNCHANGED <<mb, calls, budget>>

NextVersion ==
  \/ TickVersion
  \/ \E content \in {<<"a">>, <<"b">>} :
        /\ Cardinality({i \in DOMAIN calls : calls[i].at = now}) < 2
        /\ calls # <<>> => content # LastCall.content
        /\ UpdateComponent("activeContext", content)

SpecVersion == InitVersion /\ [][NextVersion]_vars

VersionIds ==
  {VersionOfId(n) : n \in 1..(MaxVersionWrites + 1)}
    \cup {VersionOfTime(t) : t \in 0..MaxVersionClock}

\* The contents of the stored versions of id that have the identity versionId
VersionContents(m, id, versionId) ==
  IF m.options.useDatabase
    THEN {r.content : r \in {x \in StoredVersions(m, id) : RowMatches(x, versionId)}}
    ELSE {f[2] : f \in {x \in StoredVersions(m, id) :
                          versionId.kind = "time" /\ x[1] = versionId.t}}

\* C21: getVersion(id, versionId) returns the content of the history version
\* with that identity whenever such a version is stored for id (any stored
\* version, not only the most recent ones), fails with 'Version ... not
\* found' when none is stored, and never returns another version's content.
C21_ExactLookup ==
  \A s \in Stores, versionId \in VersionIds :
    LET id == "activeContext"
        contents == VersionContents(mb[s], id, versionId)
    IN  \A r \in getComponentVersion(mb[s], id, versionId) :
          IF contents # {}
            THEN r.ok /\ r.value \in contents
            ELSE ~r.ok /\ r.error = VersionNotFound

\* C22: initialize() is idempotent: a second initialize() right after a
\* first one leaves the current content and the stored history versions of
\* every component as they were after the first, on either backend.
C22_InitializeIdempotent ==
  [][ \A s \in Stores :
        ( /\ Step("initialize")
          /\ calls # <<>>
          /\ LastCall.op = "initialize"
          /\ LastCall.ok[s] )
        => /\ mb'[s].result.ok
           /\ \A id \in ComponentNames :
                /\ BackendExists(mb'[s], id) = BackendExists(mb[s], id)
                /\ CurrentContent(mb'[s], id) = CurrentContent(mb[s], id)
                /\ StoredVersions(mb'[s], id) = StoredVersions(mb[s], id) ]_vars

\* The events of a type published by a call
EventsOfType(m, type) ==
  {k \in DOMAIN m.emitted : m.emitted[k].type = type}

C24_AllComponents ==
  [][ \A s \in Stores :
        Step("getAll") =>
          LET result == mb'[s].result.value
          IN  /\ mb'[s].result.ok
              /\ DOMAIN result = ComponentNames
              /\ \A id \in ComponentNames :
                   ~BackendExists(mb[s], id) =>
                     /\ BackendExists(mb'[s], id)
                     /\ BackendContent(mb'[s], id) = DefaultContent(id)
                     /\ result[id] = DefaultContent(id) ]_vars

\* The contents of the history versions of a component, in insertion order
VersionList(m, id) ==
  LET Rows[i \in 0..Len(m.db.component_history)] ==
        IF i = 0 THEN <<>>
        ELSE IF m.db.component_history[i].component_id = id
               THEN Append(Rows[i - 1], m.db.component_history[i].content)
               ELSE Rows[i - 1]
  IN  Rows[Len(m.db.component_history)]

\* C25: the backend's saveComponent(id, content) is idempotent under retry:
\* calling it twice with the same arguments leaves the current content and
\* the stored history versions of every component the same as calling it once.
C25_SaveIdempotent ==
  \A s \in Stores :
    s.useDatabase =>
      \A id \in ComponentNames, content \in InputContents :
        LET once  == saveComponent(mb[s], id, id, content, now)
            twice == saveComponent(once, id, id, content, now)
        IN  \A other \in ComponentNames :
              /\ CurrentContent(twice, other) = CurrentContent(once, other)
              /\ VersionList(twice, other) = VersionList(once, other)

\* Writes during which the history entry cannot be persisted
FailHistoryWrites(m) == [m EXCEPT !.historyWriteFails = TRUE]

Recovered(m) == [m EXCEPT !.historyWriteFails = FALSE]

UpdateComponentHistoryFails(componentName, content) ==
  LET after == [s \in Stores |->
                  Recovered(updateComponent(FailHistoryWrites(Begin(mb[s])),
                                            componentName, content, now))]
  IN  Call(after, [op |-> "update", componentName |-> componentName,
                   historyWriteFails |-> TRUE], content)

AppendToComponentHistoryFails(componentName, content) ==
  LET after == [s \in Stores |->
                  Recovered(appendToComponent(FailHistoryWrites(Begin(mb[s])),
                                              componentName, content, now))]
  IN  /\ \A s \in Stores :
            BackendExists(mb[s], componentName) =>
              Len(BackendContent(mb[s], componentName)) + Len(content) <= MaxContentLen
      /\ Call(after, [op |-> "append", componentName |-> componentName,
                      historyWriteFails |-> TRUE], content)

NextHistoryFails ==
  \/ Tick
  \/ \E content \in InputContents : UpdateComponent("activeContext", content)
  \/ \E content \in InputContents : AppendToComponent("activeContext", content)
  \/ \E content \in InputContents :
        UpdateComponentHistoryFails("activeContext", content)
  \/ \E content \in InputContents :
        AppendToComponentHistoryFails("activeContext", content)

SpecHistoryFails == Init /\ [][NextHistoryFails]_vars

\* The call c was made while history entries could not be persisted
HistoryWriteFailed(c) == "historyWriteFails" \in DOMAIN c

\* C26: a failure to persist the history version during update or append is
\* swallowed: the primary content write is still performed, the call returns
\* success, and the component's current content is the new content.
C26_HistoryFailureSwallowed ==
  [][ \A s \in Stores :
        ((Step("update") \/ Step("append")) /\ HistoryWriteFailed(calls'[Len(calls')])) =>
          LET c == calls'[Len(calls')]
              id == c.componentName
              newContent == IF c.op = "update" THEN c.content
                            ELSE CurrentContent(mb[s], id) \o c.content
          IN  /\ mb'[s].result = [ok |-> TRUE, value |-> TRUE, error |-> ""]
              /\ BackendExists(mb'[s], id)
              /\ BackendContent(mb'[s], id) = newContent ]_vars

\* update "a", then update "b" while history writes fail: the call returned
\* true, the content is "b", and the history entry of that write is missing
C26_Witness ==
  /\ Len(calls) = 2
  /\ calls[1].op = "update" /\ calls[1].content = <<"a">>
  /\ ~HistoryWriteFailed(calls[1])
  /\ calls[2].op = "update" /\ calls[2].content = <<"b">>
  /\ HistoryWriteFailed(calls[2])
  /\ \A s \in Stores :
       /\ mb[s].result.ok
       /\ BackendContent(mb[s], "activeContext") = <<"b">>
       /\ Cardinality(StoredVersions(mb[s], "activeContext")) =
            (IF s.useDatabase THEN 1 ELSE 0)

\* isInitialized: false at the first required component that is not in the
\* backend (no row / no file), true when the loop completes
RECURSIVE RequiredExist(_, _)
RequiredExist(m, i) ==
  IF i > Len(InitOrder) THEN TRUE
  ELSE IF ~BackendExists(m, InitOrder[i]) THEN FALSE
  ELSE RequiredExist(m, i + 1)

\* Mutant: only the first required component is looked at
isInitializedByFirst(m) == Return(m, BackendExists(m, InitOrder[1]))

isInitialized(m) == Return(m, RequiredExist(m, 1))

IsInitialized ==
  LET after == [s \in Stores |-> isInitialized(Begin(mb[s]))]
  IN  Call(after, [op |-> "isInitialized", componentName |-> ""], <<>>)

\* Bootstrapping: the required components are written one by one or by
\* initialize(), and the caller asks whether the store is initialized
InitInitialized == Constructed /\ budget = MaxBootstrapOps

NextInitialized ==
  \/ Tick
  \/ IsInitialized
  \/ Initialize
  \/ \E componentName \in requiredComponents : UpdateComponent(componentName, <<"a">>)
  \/ GetComponent("systemPatterns")

SpecInitialized == InitInitialized /\ [][NextInitialized]_vars

WrittenContents ==
  LET W[i \in 0..Len(calls)] ==
        IF i = 0 THEN <<>>
        ELSE IF calls[i].op = "update" THEN calls[i].content
        ELSE W[i - 1] \o calls[i].content
  IN  W

\* The writes that changed the content of the component when it was present
ContentChangingWrites ==
  {i \in 2..Len(calls) : WrittenContents[i] # WrittenContents[i - 1]}

\* C28: history is one step behind current: after any sequence of completed
\* update and append calls on a component, the newest history version is the
\* content that was current immediately before the latest content-changing
\* write of the present component, and is never equal to the current content.
C28_OneStepBehind ==
  \A s \in Stores :
    LET id == "activeContext"
    IN  (\A i \in DOMAIN calls :
           /\ calls[i].op \in {"update", "append"}
           /\ calls[i].componentName = id
           /\ calls[i].ok[s])
        => \A history \in getComponentHistory(mb[s], id, NoOptions) :
             /\ history # <<>> => history[1] # CurrentContent(mb[s], id)
             /\ ContentChangingWrites # {} =>
                  /\ history # <<>>
                  /\ history[1] = WrittenContents[Max(ContentChangingWrites) - 1]

-----------------------------------------------------------------------------
(* Pruning the history of a component in the backend *)

\* The component_history rows of a component
HistoryRows(m, componentId) ==
  {r \in Range(m.db.component_history) : r.component_id = componentId}

\* MemoryBankDatabaseAdapter.pruneComponentHistory(componentId, keepCount):
\* ordered is the result of SELECT id ... ORDER BY created_at DESC before the
\* LIMIT; when the limited list is empty nothing is pruned, otherwise the rows
\* of the component whose id is not in it are deleted
pruneComponentHistory(m, componentId, keepCount, ordered) ==
  LET rows == SliceTo(ordered, keepCount)
      keepIds == {rows[i].id : i \in DOMAIN rows}
      Stays(r) == ~(r.component_id = componentId /\ r.id \notin keepIds)
  IN  IF Len(rows) = 0 THEN m
      ELSE [m EXCEPT !.db.component_history = SelectSeq(@, Stays)]

\* The backend's pruning called directly: the adapter's with keepCount on a
\* database, the manager's for the history directory (which keeps
\* options.maxHistoryVersions files) otherwise
PruneComponentHistory(componentId, keepCount) ==
  \E ordered \in CreatedAtDesc(HistoryRows(mb[[useDatabase |-> TRUE, enableCache |-> FALSE]],
                                           componentId)) :
     LET after == [s \in Stores |->
                     Return(IF s.useDatabase
                              THEN pruneComponentHistory(Begin(mb[s]), componentId,
                                                         keepCount, ordered)
                              ELSE _pruneComponentHistory(Begin(mb[s]), componentId),
                            TRUE)]
     IN  /\ \A s \in Stores :
              s.useDatabase => ordered \in CreatedAtDesc(HistoryRows(mb[s], componentId))
         /\ Call(after, [op |-> "pruneComponentHistory", componentName |-> componentId,
                         keepCount |-> keepCount], <<>>)

InitPrune == Constructed /\ budget = MaxPruneOps

NextPrune ==
  \/ Tick
  \/ \E componentName \in {"activeContext", "productContext"} :
        UpdateComponent(componentName, <<"a">>)
  \/ \E componentName \in {"activeContext", "productContext"}, keepCount \in 0..MaxKeepCount :
        PruneComponentHistory(componentName, keepCount)

SpecPrune == InitPrune /\ [][NextPrune]_vars

\* The instant a stored history version was written
VersionTime(m, version) ==
  IF m.options.useDatabase THEN version.created_at ELSE version[1]

\* C29: the backend's pruneHistory(id, keepCount) deletes all but the
\* keepCount newest versions of id for every keepCount >= 0 (with
\* keepCount = 0 no version of id remains), and never deletes a version that
\* belongs to another component.
C29_PruneKeepsNewest ==
  [][ \A s \in Stores :
        Step("pruneComponentHistory") =>
          LET c == calls'[Len(calls')]
              id == c.componentName
              keepCount == IF s.useDatabase THEN c.keepCount
                           ELSE mb[s].options.maxHistoryVersions
              before == StoredVersions(mb[s], id)
              after == StoredVersions(mb'[s], id)
          IN  /\ after \subseteq before
              /\ Cardinality(after) =
                   (IF Cardinality(before) < keepCount THEN Cardinality(before)
                    ELSE keepCount)
              /\ \A kept \in after, deleted \in before \ after :
                   VersionTime(mb[s], kept) >= VersionTime(mb[s], deleted)
              /\ \A other \in ComponentNames \ {id} :
                   StoredVersions(mb'[s], other) = StoredVersions(mb[s], other) ]_vars

\* The position of a stored history version in the order of insertion: the
\* AUTOINCREMENT id of its row, the instant in the name of its file
InsertionOrder(m, version) ==
  IF m.options.useDatabase THEN version.id ELSE version[1]

\* C30: when several history versions of a component carry an identical
\* timestamp, retention is decided by insertion order: pruning keeps the most
\* recently inserted versions, whatever order the equal timestamps come in.
C30_TieBreakByInsertion ==
  [][ \A s \in Stores :
        Step("pruneComponentHistory") =>
          LET id == calls'[Len(calls')].componentName
              before == StoredVersions(mb[s], id)
              after == StoredVersions(mb'[s], id)
          IN  (\E v, w \in before :
                 v # w /\ VersionTime(mb[s], v) = VersionTime(mb[s], w))
              => \A kept \in after, deleted \in before \ after :
                   InsertionOrder(mb[s], kept) > InsertionOrder(mb[s], deleted) ]_vars

-----------------------------------------------------------------------------
(* The life of a history version *)

\* The identity of a stored history version (the id of its row, the name of
\* its file) and its content
VersionKeys(m, id) == {InsertionOrder(m, v) : v \in StoredVersions(m, id)}

VersionContent(m, id, key) ==
  LET v == CHOOSE x \in StoredVersions(m, id) : InsertionOrder(m, x) = key
  IN  IF m.options.useDatabase THEN v.content ELSE v[2]

\* C31: each successful write that changes the content of a present
\* component creates exactly one new history version; the content of a stored
\* version never changes afterwards and a version disappears only through
\* pruning (when the retention bound is exceeded), also when two writes to
\* the same component happen at the same clock instant.
C31_VersionLifecycle ==
  [][ \A s \in Stores :
        LET id == "activeContext"
            before == VersionKeys(mb[s], id)
            after == VersionKeys(mb'[s], id)
        IN  ((Step("update") \/ Step("append")) /\ mb'[s].result.ok) =>
              /\ ( /\ BackendExists(mb[s], id)
                   /\ BackendContent(mb'[s], id) # BackendContent(mb[s], id) )
                 => Cardinality(after \ before) = 1
              /\ \A key \in before \cap after :
                   VersionContent(mb'[s], id, key) = VersionContent(mb[s], id, key)
              /\ before \ after # {} =>
                   /\ Cardinality(after) = mb[s].options.maxHistoryVersions
                   /\ \A gone \in before \ after, kept \in after : gone < kept ]_vars

-----------------------------------------------------------------------------
(* The cache *)

\* C32: every successful get(id) increments exactly one counter, hits when
\* the value is served from the cache and misses when it is read from the
\* backend; with the cache disabled every get is a miss and the cache never
\* holds an entry.
C32_CacheStatistics ==
  [][ \A s \in Stores :
        (Step("get") /\ mb'[s].result.ok) =>
          LET id == calls'[Len(calls')].componentName
              served == CacheHit(mb[s], id)
              stats == mb[s].cache.stats
          IN  /\ mb'[s].cache.stats.hits = stats.hits + (IF served THEN 1 ELSE 0)
              /\ mb'[s].cache.stats.misses = stats.misses + (IF served THEN 0 ELSE 1)
              /\ ~s.enableCache => ~served /\ mb'[s].cache.data = EmptyMap ]_vars

\* What clearCache() is to have done by the time it returns: no entry is
\* left, lastCleared is the time of the call, one CACHE_CLEARED event and no
\* other was published, and a get of any component is not served from the
\* cache
Cleared(m, at) ==
  /\ m.cache.data = EmptyMap
  /\ m.cache.stats.lastCleared = at
  /\ Len(m.emitted) = 1
  /\ m.emitted[1].type = EVENT_TYPES.CACHE_CLEARED
  /\ \A id \in ComponentNames :
       LET got == getComponent(Begin(m), id, at)
       IN  /\ got.cache.stats.hits = m.cache.stats.hits
           /\ BackendExists(m, id) => got.result.value = BackendContent(m, id)

-----------------------------------------------------------------------------
(* Overlapping calls.  getComponent and updateComponent are async functions: *)
(* a call runs until its first await and is resumed, one await at a time,    *)
(* when the awaited file or database operation has been carried out; other  *)
(* calls run in between.  fs.writeFile opens the file with flag 'w', which   *)
(* truncates it, and writes the data in a further operation.  The calls of   *)
(* _saveToHistory are taken as one operation.                                *)

\* What fs.write of data at position 0 leaves in a file holding old
Overlay(old, data) == data \o SubSeq(old, Len(data) + 1, Len(old))

\* A call that has been made: pc is the await it stands at
NewCall(op, componentName, content) ==
  [op |-> op, componentName |-> componentName, content |-> content,
   pc |-> "called", isNewComponent |-> FALSE, read |-> <<>>,
   returned |-> FALSE, value |-> <<>>]

\* The call made: the code up to the first await
invoke(m, call, t) ==
  LET id == call.componentName
      started ==
        IF call.op = "get" /\ CacheHit(m, id)
          THEN [call EXCEPT !.pc = "done", !.returned = TRUE,
                            !.value = m.cache.data[id]]
        ELSE IF m.options.useDatabase
          THEN [call EXCEPT !.pc = "select"]
        ELSE IF id \notin DOMAIN m.files
          THEN [call EXCEPT !.pc = "open", !.isNewComponent = TRUE,
                            !.content = IF call.op = "get" THEN DefaultContent(id)
                                        ELSE call.content]
        ELSE [call EXCEPT !.pc = "read"]
      counted == IF call.op = "get" /\ CacheHit(m, id)
                   THEN Return([m EXCEPT !.cache.stats.hits = @ + 1],
                               m.cache.data[id])
                   ELSE m
  IN  [counted EXCEPT !.running = Append(@, started)]

\* The return of the call p: the code after the last await
finish(m, p, t) ==
  LET call == m.running[p]
      id == call.componentName
  IN  IF call.op = "get"
        THEN LET content == IF call.isNewComponent THEN call.content ELSE call.read
                 cached == IF m.cache.enabled THEN CacheSet(m, id, content)
                           ELSE IF ~m.options.useDatabase /\ ~call.isNewComponent
                             THEN [m EXCEPT !.cache.stats.misses = @ + 1]
                           ELSE m
             IN  [Return(cached, content) EXCEPT
                    !.running[p].pc = "done", !.running[p].returned = TRUE,
                    !.running[p].value = content]
        ELSE LET cached == CacheSet(m, id, call.content)
                 notified == NotifyUpdate(cached, call.isNewComponent, id,
                                          call.content, t)
             IN  [notified EXCEPT !.running[p].pc = "done",
                                  !.running[p].returned = TRUE]

\* Mutant: the content found when the file is opened is saved as a version
\* unless it is the content the call has read
openSavingCurrent(m, p, t) ==
  LET call == m.running[p]
      id == call.componentName
      saved == IF id \in DOMAIN m.files /\ m.files[id] # call.read
                 THEN _saveToHistory(m, id, m.files[id], t) ELSE m
  IN  [saved EXCEPT !.files = Put(@, id, <<>>), !.running[p].pc = "write"]

\* fs.writeFile: open(componentPath, 'w') creates or truncates the file
openToWrite(m, p, t) ==
  [m EXCEPT !.files = Put(@, m.running[p].componentName, <<>>),
            !.running[p].pc = "write"]

\* The call p resumed after the await it stands at
resume(m, p, t) ==
  LET call == m.running[p]
      id == call.componentName
  IN  CASE call.pc = "select" ->
             \* await this.dbAdapter.getComponent(componentName)
             IF id \in DOMAIN m.db.components
               THEN IF call.op = "get"
                      THEN [m EXCEPT !.running[p].read = m.db.components[id].content,
                                     !.running[p].pc = "finish"]
                      ELSE [m EXCEPT !.running[p].pc = "upsert"]
               ELSE [m EXCEPT !.running[p].isNewComponent = TRUE,
                              !.running[p].content =
                                 IF call.op = "get" THEN DefaultContent(id)
                                 ELSE call.content,
                              !.running[p].pc = "upsert"]
        [] call.pc = "upsert" ->
             \* saveComponent: INSERT ... ON CONFLICT (id) DO UPDATE
             [m EXCEPT !.db.components =
                          Put(@, id, [name |-> id, content |-> call.content,
                                      updated_at |-> t]),
                       !.running[p].pc = "history"]
        [] call.pc = "history" ->
             \* saveComponent: await this.saveComponentHistory(...)
             [saveComponentHistory(m, id, call.content, t) EXCEPT
                !.running[p].pc = "finish"]
        [] call.pc = "read" ->
             \* await fs.readFile(componentPath, 'utf8')
             LET content == m.files[id]
             IN  [m EXCEPT !.running[p].read = content,
                           !.running[p].pc =
                              IF call.op = "get" THEN "finish"
                              ELSE IF content # call.content THEN "saveToHistory"
                              ELSE "open"]
        [] call.pc = "saveToHistory" ->
             \* await this._saveToHistory(componentName, currentContent)
             [_saveToHistory(m, id, call.read, t) EXCEPT !.running[p].pc = "open"]
        [] call.pc = "open" -> openToWrite(m, p, t)
        [] call.pc = "write" ->
             \* fs.writeFile: write(fd, content)
             [m EXCEPT !.files = Put(@, id, Overlay(m.files[id], call.content)),
                       !.running[p].pc = "finish"]
        [] call.pc = "finish" -> finish(m, p, t)
        [] OTHER -> m

\* The calls in progress
InFlight(m) == {p \in DOMAIN m.running : ~m.running[p].returned}

InvokeGetComponent(componentName) ==
  LET after == [s \in Stores |->
                  invoke(Begin(mb[s]), NewCall("get", componentName, <<>>), now)]
  IN  /\ \A s \in Stores : Cardinality(InFlight(mb[s])) < MaxInFlight
      /\ Call(after, [op |-> "get", componentName |-> componentName], <<>>)

InvokeUpdateComponent(componentName, content) ==
  LET after == [s \in Stores |->
                  invoke(Begin(mb[s]), NewCall("update", componentName, content), now)]
  IN  /\ \A s \in Stores : Cardinality(InFlight(mb[s])) < MaxInFlight
      /\ Call(after, [op |-> "update", componentName |-> componentName], content)

Resume(p) ==
  /\ \E s \in Stores : p \in InFlight(mb[s])
  /\ mb' = [s \in Stores |-> IF p \in InFlight(mb[s]) THEN resume(mb[s], p, now)
                             ELSE mb[s]]
  /\ UNCHANGED <<now, calls, budget>>

\* The contents written in the scenario of overlapping calls
OverlapContents == {<<"b">>, <<"c", "c">>}

\* The content written to activeContext by a call that returned before the
\* overlapping calls are made
StoredContent == <<"a">>

\* That call, in the log and among the calls of each manager
StoredCall ==
  [op |-> "update", componentName |-> "activeContext", stored |-> TRUE,
   content |-> StoredContent, at |-> 0, ok |-> [s \in Stores |-> TRUE]]

\* The manager after it, with an empty cache (cleared, or the manager was
\* constructed anew on the store)
Stored(s) ==
  LET call == NewCall("update", "activeContext", StoredContent)
      written == updateComponent(NewManager(s), "activeContext", StoredContent, 0)
  IN  [written EXCEPT !.cache.data = EmptyMap,
                      !.running = <<[call EXCEPT !.pc = "done", !.returned = TRUE]>>]

\* The overlapping calls are made on a fresh store or on a store holding
\* activeContext
InitOverlap ==
  /\ now = 0
  /\ \/ /\ mb = [s \in Stores |-> NewManager(s)]
        /\ calls = <<>>
        /\ budget = MaxOverlapCalls
     \/ /\ mb = [s \in Stores |-> Stored(s)]
        /\ calls = <<StoredCall>>
        /\ budget = MaxOverlapCalls + 1

NextOverlap ==
  \/ Tick
  \/ InvokeGetComponent("activeContext")
  \/ \E content \in OverlapContents : InvokeUpdateComponent("activeContext", content)
  \/ \E p \in DOMAIN calls : Resume(p)

SpecOverlap == InitOverlap /\ [][NextOverlap]_vars

\* Two overlapping updates of a stored component, at one instant
NextOverlapUpdates ==
  \/ \E content \in OverlapContents : InvokeUpdateComponent("activeContext", content)
  \/ \E p \in DOMAIN calls : Resume(p)

InitOverlapUpdates ==
  /\ now = 0
  /\ mb = [s \in Stores |-> Stored(s)]
  /\ calls = <<StoredCall>>
  /\ budget = MaxOverlapCalls + 1

SpecOverlapUpdates == InitOverlapUpdates /\ [][NextOverlapUpdates]_vars

\* The overlapping calls are a get and an update of activeContext, made
\* on a store holding it (Present) or not (Absent); g and u are their places
\* in the log
StoredBefore == calls # <<>> /\ "stored" \in DOMAIN calls[1]

GetAndUpdate(g, u) ==
  /\ {g, u} = (DOMAIN calls) \ (IF StoredBefore THEN {1} ELSE {})
  /\ calls[g].op = "get"
  /\ calls[u].op = "update"

\* C34: a get(id) that overlaps an update(id, new) of a present component
\* returns either the complete old content or the complete new content,
\* never an empty, partial or mixed value.
C34_NoTornRead ==
  \A s \in Stores :
    \A g, u \in DOMAIN calls :
      (StoredBefore /\ GetAndUpdate(g, u) /\ mb[s].running[g].returned) =>
        mb[s].running[g].value \in {StoredContent, calls[u].content}

\* The contents of the stored history versions of a component
HistoryContents(m, id) ==
  IF m.options.useDatabase THEN Range(VersionList(m, id))
  ELSE {v[2] : v \in StoredVersions(m, id)}

\* The value written by the call p is lost: it is neither the content of
\* the component nor in its history
Lost(m, p) ==
  /\ m.running[p].content # BackendContent(m, m.running[p].componentName)
  /\ m.running[p].content \notin HistoryContents(m, m.running[p].componentName)

\* C35: with no per-component locking, two overlapping update calls on the
\* same component can interleave their read-old, save-history and overwrite
\* steps.  On the file system, when both calls read the old content before
\* either overwrote it, one of the two values, written by an update that
\* returned success, is neither the final content nor in the history (lost
\* update); on the database every written value is in the history, where the
\* versions can be out of the order of the writes (C35_Witness).
C35_LostUpdate ==
  \A s \in Stores :
    ( /\ Len(calls) = 3
      /\ InFlight(mb[s]) = {}
      /\ calls[2].content # calls[3].content )
    => IF s.useDatabase
         THEN {calls[2].content, calls[3].content} \subseteq
                HistoryContents(mb[s], "activeContext")
         ELSE ( /\ mb[s].running[2].read = StoredContent
                /\ mb[s].running[3].read = StoredContent )
              => \E p \in {2, 3} : Lost(mb[s], p)

\* Two overlapping updates have returned: on the file system the value of
\* the first is lost, on the database the newest history version is not the
\* final content
C35_Witness ==
  /\ Len(calls) = 3
  /\ \A s \in Stores :
       /\ InFlight(mb[s]) = {}
       /\ mb[s].result.ok
       /\ IF s.useDatabase
            THEN LET versions == VersionList(mb[s], "activeContext")
                 IN  /\ BackendContent(mb[s], "activeContext") = calls[3].content
                     /\ versions[Len(versions)] = calls[2].content
                     /\ calls[2].content # calls[3].content
            ELSE /\ BackendContent(mb[s], "activeContext") = calls[3].content
                 /\ Lost(mb[s], 2)

-----------------------------------------------------------------------------
(* Writes of two components *)

FrameNames == {"activeContext", "productContext"}

NextFrame ==
  \/ Tick
  \/ \E componentName \in FrameNames : GetComponent(componentName)
  \/ \E componentName \in FrameNames, content \in {<<"a">>, <<"b">>} :
        UpdateComponent(componentName, content)
  \/ \E componentName \in FrameNames, content \in {<<"a">>, <<"b">>} :
        AppendToComponent(componentName, content)

SpecFrame == Init /\ [][NextFrame]_vars

\* The cache entry of a component: whether there is one, and its value
CacheEntry(m, id) ==
  IF id \in DOMAIN m.cache.data THEN <<m.cache.data[id]>> ELSE <<>>

\* C36: update(id, c) and append(id, c) change only component id: the
\* current content, the stored history versions and the cache entry of every
\* other component are unchanged.
C36_Frame ==
  [][ \A s \in Stores :
        (Step("update") \/ Step("append")) =>
          \A other \in ComponentNames \ {calls'[Len(calls')].componentName} :
            /\ BackendExists(mb'[s], other) = BackendExists(mb[s], other)
            /\ CurrentContent(mb'[s], other) = CurrentContent(mb[s], other)
            /\ StoredVersions(mb'[s], other) = StoredVersions(mb[s], other)
            /\ CacheEntry(mb'[s], other) = CacheEntry(mb[s], other) ]_vars

\* productContext written twice and read, then activeContext updated:
\* productContext keeps its content, its history version and its cache entry
C36_Witness ==
  /\ Len(calls) = 3
  /\ calls[1].op = "update" /\ calls[1].componentName = "productContext"
  /\ calls[2].op = "append" /\ calls[2].componentName = "productContext"
  /\ calls[3].op = "update" /\ calls[3].componentName = "activeContext"
  /\ \A s \in Stores :
       /\ mb[s].result.ok
       /\ BackendContent(mb[s], "productContext") = calls[1].content \o calls[2].content
       /\ StoredVersions(mb[s], "productContext") # {}
       /\ s.enableCache => CacheEntry(mb[s], "productContext") # <<>>
       /\ BackendContent(mb[s], "activeContext") = calls[3].content

-----------------------------------------------------------------------------
(* Updates whose write of the content fails *)

FailContentWrites(m) == [m EXCEPT !.contentWriteFails = TRUE]

ContentWritesRecovered(m) == [m EXCEPT !.contentWriteFails = FALSE]

UpdateComponentWriteFails(componentName, content) ==
  LET after == [s \in Stores |->
                  ContentWritesRecovered(
                    updateComponent(FailContentWrites(Begin(mb[s])),
                                    componentName, content, now))]
  IN  Call(after, [op |-> "update", componentName |-> componentName,
                   contentWriteFails |-> TRUE], content)

NextWriteFails ==
  \/ Tick
  \/ GetComponent("activeContext")
  \/ \E content \in InputContents : UpdateComponent("activeContext", content)
  \/ \E content \in InputContents : UpdateComponentWriteFails("activeContext", content)

SpecWriteFails == Init /\ [][NextWriteFails]_vars

\* The call c was made while the content could not be written
ContentWriteFailed(c) == "contentWriteFails" \in DOMAIN c

\* C37: if the backend write of the new content fails during update, the
\* call fails, the cache entry for id keeps its previous value (the cache
\* never holds content the backend did not accept), and no COMPONENT_CREATED
\* or COMPONENT_UPDATED event is published.
C37_FailedWrite ==
  [][ \A s \in Stores :
        (Step("update") /\ ContentWriteFailed(calls'[Len(calls')])) =>
          LET id == calls'[Len(calls')].componentName
          IN  /\ ~mb'[s].result.ok
              /\ mb'[s].result.error = BackendError
              /\ CacheEntry(mb'[s], id) = CacheEntry(mb[s], id)
              /\ ComponentEvents(mb'[s]) = <<>> ]_vars

\* update "a", then an update "b" whose write fails: the call threw, the
\* content and the cache entry are still "a"
C37_Witness ==
  /\ Len(calls) = 2
  /\ calls[1].op = "update" /\ calls[1].content = <<"a">>
  /\ ~ContentWriteFailed(calls[1])
  /\ calls[2].op = "update" /\ calls[2].content = <<"b">>
  /\ ContentWriteFailed(calls[2])
  /\ \A s \in Stores :
       /\ ~mb[s].result.ok
       /\ BackendContent(mb[s], "activeContext") = <<"a">>
       /\ s.enableCache => CacheEntry(mb[s], "activeContext") = <<<<"a">>>>

-----------------------------------------------------------------------------
(* A get overlapping an update: the cache and the default content *)

\* Both calls g and u have completed on the manager m
BothCompleted(m, g, u) ==
  /\ {g, u} \subseteq DOMAIN m.running
  /\ InFlight(m) = {}

\* C38: with the cache enabled, when a get(id) overlaps an update(id, v),
\* once both calls have completed the cache entry for id equals the
\* backend's current content: the get cannot leave the older value cached
\* after the update has written the newer one.
C38_CacheCoherent ==
  \A s \in Stores :
    \A g, u \in DOMAIN calls :
      ( /\ s.enableCache
        /\ GetAndUpdate(g, u)
        /\ BothCompleted(mb[s], g, u) )
      => CacheEntry(mb[s], "activeContext") =
           <<BackendContent(mb[s], "activeContext")>>

\* C39: a get(id) that overlaps an update(id, v) on an Absent component
\* never replaces v with the default content: once update(id, v) has
\* returned success, the backend content of id stays v until the next update
\* or append of id.
C39_DefaultNeverReplaces ==
  \A s \in Stores :
    \A g, u \in DOMAIN calls :
      ( /\ ~StoredBefore
        /\ GetAndUpdate(g, u)
        /\ u \in DOMAIN mb[s].running
        /\ mb[s].running[u].returned )
      => BackendContent(mb[s], "activeContext") = calls[u].content

-----------------------------------------------------------------------------
(* What the subscribers find when they are notified of an update *)

\* C40: a COMPONENT_CREATED or COMPONENT_UPDATED event is published only
\* after the new content has been persisted in the backend and written to the
\* cache: a get(id) issued from inside the subscriber's callback returns the
\* content written by the update that triggered the event.
C40_PublishedAfterWrite ==
  [][ \A s \in Stores :
        (Step("update") /\ ComponentEvents(mb'[s]) # <<>>) =>
          LET c == calls'[Len(calls')]
          IN  /\ Len(mb'[s].seen) = Len(ComponentEvents(mb'[s]))
              /\ \A k \in DOMAIN mb'[s].seen :
                   /\ mb'[s].seen[k].backend = <<c.content>>
                   /\ s.enableCache => mb'[s].seen[k].cache = <<c.content>>
                   /\ mb'[s].seen[k].get =
                        [ok |-> TRUE, value |-> c.content, error |-> ""] ]_vars

\* a subscriber of every event type, then update "a" of the absent
\* component and update "" of the present one: the callback was invoked with
\* COMPONENT_UPDATED and a get from inside it returns ""
C40_Witness ==
  /\ Len(calls) = 3
  /\ calls[1].op = "subscribe" /\ calls[1].eventTypes = Null
  /\ calls[2].op = "update" /\ calls[2].content = <<"a">>
  /\ calls[3].op = "update" /\ calls[3].content = <<>>
  /\ \A s \in Stores :
       /\ mb[s].result.ok
       /\ \E i \in DOMAIN mb[s].delivered :
            /\ mb[s].delivered[i].eventType = EVENT_TYPES.COMPONENT_UPDATED
            /\ mb[s].delivered[i].callback = calls[1].connectionId
       /\ Len(mb[s].seen) = 1
       /\ mb[s].seen[1].get.value = <<>>
       /\ BackendContent(mb[s], "activeContext") = <<>>

====
